---------------------------- MODULE Spec2Model ----------------------------
(***************************************************************************)
(* Categorical association helpers (chi_square_test, cal_cramer_v,         *)
(* cal_cramer_v_adjusted) and the grouped bar chart builder                *)
(* (plot_bar_chart_multivariate_y_col).                                    *)
(*                                                                         *)
(* Floating point numbers are modelled as exact rationals extended with    *)
(* NaN and +/-Inf, the values numpy yields for 0/0 and x/0 (a warning, not *)
(* an exception).  A number is a record [num, den] in lowest terms with    *)
(* den >= 0; den = 0 stands for NaN (num = 0) and +/-Inf (num = +/-1).     *)
(* Square roots are kept as their radicand.  Rounding is not modelled.     *)
(***************************************************************************)
EXTENDS Integers, Sequences, FiniteSets

\* ------------------------------------------------------------------ bounds
MaxRows == 2
MaxCols == 3
MaxTotal == 4
MaxData == 4

\* ------------------------------------------------------- extended rationals
AbsI(x) == IF x < 0 THEN -x ELSE x

SgnI(x) == IF x < 0 THEN -1 ELSE IF x = 0 THEN 0 ELSE 1

MinI(a, b) == IF a <= b THEN a ELSE b

RECURSIVE GCD(_, _)
GCD(a, b) == IF b = 0 THEN a ELSE GCD(b, a % b)

Norm(n, d) ==
    IF d = 0 THEN [num |-> SgnI(n), den |-> 0]
    ELSE LET s == SgnI(d)
             g == GCD(AbsI(n), AbsI(d))
         IN  [num |-> (s * n) \div g, den |-> AbsI(d) \div g]

Rat(n, d) == Norm(n, d)

IntV(n) == [num |-> n, den |-> 1]

Zero == IntV(0)

One == IntV(1)

Half == Rat(1, 2)

NaN == [num |-> 0, den |-> 0]

Inf == [num |-> 1, den |-> 0]

\* a local or a return value that was never assigned
Unset == [num |-> 0, den |-> -1]

IsNaN(a) == a = NaN

Neg(a) == [num |-> -a.num, den |-> a.den]

Add(a, b) ==
    IF a.den = 0 /\ b.den = 0
    THEN (IF a.num = b.num THEN a ELSE NaN)
    ELSE Norm(a.num * b.den + b.num * a.den, a.den * b.den)

Sub(a, b) == Add(a, Neg(b))

Mul(a, b) == Norm(a.num * b.num, a.den * b.den)

Recip(a) == IF a = Zero THEN Inf ELSE Norm(a.den * SgnI(a.num), AbsI(a.num))

Div(a, b) == Mul(a, Recip(b))

AbsV(a) == [num |-> AbsI(a.num), den |-> a.den]

SignV(a) == IF IsNaN(a) THEN NaN ELSE IntV(SgnI(a.num))

\* IEEE comparisons: every comparison with NaN is false
Lt(a, b) ==
    /\ ~IsNaN(a)
    /\ ~IsNaN(b)
    /\ IF a.den = 0 /\ b.den = 0 THEN a.num < b.num
       ELSE a.num * b.den < b.num * a.den

EqV(a, b) == ~IsNaN(a) /\ ~IsNaN(b) /\ a = b

Le(a, b) == Lt(a, b) \/ EqV(a, b)

\* np.minimum: NaN propagates
NpMinimum(a, b) ==
    IF IsNaN(a) \/ IsNaN(b) THEN NaN ELSE IF Lt(b, a) THEN b ELSE a

\* Python's built-in max(a, b): b only when b > a
PyMax(a, b) == IF Lt(a, b) THEN b ELSE a

Square(a) == Mul(a, a)

RECURSIVE SumI(_)
SumI(s) == IF s = <<>> THEN 0 ELSE Head(s) + SumI(Tail(s))

RECURSIVE SumV(_)
SumV(s) == IF s = <<>> THEN Zero ELSE Add(Head(s), SumV(Tail(s)))

\* ------------------------------------------------------------------ tables
\* A table is a sequence of rows, each a sequence of cells.
NRows(T) == Len(T)

NCols(T) == Len(T[1])

Shape(T) == <<NRows(T), NCols(T)>>

Size(T) == NRows(T) * NCols(T)

Transpose(T) == [j \in 1..NCols(T) |-> [i \in 1..NRows(T) |-> T[i][j]]]

\* row-major position k of a table
RowOf(T, k) == ((k - 1) \div NCols(T)) + 1

ColOf(T, k) == ((k - 1) % NCols(T)) + 1

RowTotal(T, i) == SumI(T[i])

ColTotal(T, j) == SumI([i \in 1..NRows(T) |-> T[i][j]])

GrandTotal(T) == SumI([i \in 1..NRows(T) |-> RowTotal(T, i)])

RECURSIVE Vectors(_, _)
Vectors(len, budget) ==
    IF len = 0 THEN {<<>>}
    ELSE UNION {{<<x>> \o v : v \in Vectors(len - 1, budget - x)} : x \in 0..budget}

Reshape(vec, r, c) == [i \in 1..r |-> [j \in 1..c |-> vec[(i - 1) * c + j]]]

\* every r x c table of counts with grand total at most MaxTotal
TablesOf(r, c) == {Reshape(vec, r, c) : vec \in Vectors(r * c, MaxTotal)}

Tables == UNION {TablesOf(r, c) : r \in 1..MaxRows, c \in 1..MaxCols}


\* ------------------------------------------- scipy.stats.chi2_contingency
\* The library routine called at lines 20, 49 and 76, with its defaults
\* (correction=True, lambda_=None).  Its checks for negative counts and for
\* an empty array never apply: tables here are non-empty and hold counts.
\* margins(observed): the row sums and the column sums
margins(T) ==
    [rows |-> [i \in 1..NRows(T) |-> RowTotal(T, i)],
     cols |-> [j \in 1..NCols(T) |-> ColTotal(T, j)]]

\* expected_freq with the total squared in the divisor
expected_freq_total_squared(T) ==
    LET m == margins(T)
    IN  [i \in 1..NRows(T) |-> [j \in 1..NCols(T) |->
            Div(IntV(m.rows[i] * m.cols[j]), IntV(GrandTotal(T) * GrandTotal(T)))]]

\* expected_freq: reduce(np.multiply, margsums) / observed.sum() ** (d - 1)
expected_freq(T) ==
    LET m == margins(T)
    IN  [i \in 1..NRows(T) |-> [j \in 1..NCols(T) |->
            Div(IntV(m.rows[i] * m.cols[j]), IntV(GrandTotal(T)))]]

\* the zero check left out
has_zero_expected_never(E) == FALSE

\* np.any(expected == 0)
has_zero_expected(E) ==
    \E i \in 1..Len(E) : \E j \in 1..Len(E[i]) : EqV(E[i][j], Zero)

\* the degrees of freedom without the final - 1
degrees_of_freedom_off_by_one(shape) == shape[1] * shape[2] - (shape[1] + shape[2]) + 2

\* dof = expected.size - sum(expected.shape) + expected.ndim - 1
degrees_of_freedom(shape) == shape[1] * shape[2] - (shape[1] + shape[2]) + 2 - 1

\* magnitude = np.minimum(0.5, np.abs(diff))
yates_magnitude(diff) == NpMinimum(Half, AbsV(diff))

\* Yates' correction: observed + magnitude * direction, diff = expected - observed
yates_observed(o, e) ==
    LET diff == Sub(e, o)
    IN  Add(o, Mul(yates_magnitude(diff), SignV(diff)))

\* power_divergence with lambda_ = 1: sum((f_obs - f_exp) ** 2 / f_exp)
power_divergence(O, E) ==
    SumV([k \in 1..Len(O) |-> Div(Square(Sub(O[k], E[k])), E[k])])

\* the call with correction=False
correction_off == FALSE

\* chi2_contingency(contingency_table): the keyword default correction=True
correction == TRUE

\* the rest of chi2_contingency, given the expected frequencies E
chi2_given_expected(T, E) ==
    LET dof == degrees_of_freedom(Shape(T))
        adj(i, j) == IF dof = 1 /\ correction
                     THEN yates_observed(IntV(T[i][j]), E[i][j])
                     ELSE IntV(T[i][j])
    IN  IF has_zero_expected(E)
        THEN [raises |-> "ValueError", chi2 |-> Unset, dof |-> -1, expected |-> <<>>]
        ELSE [raises |-> "none",
              chi2 |-> IF dof = 0 THEN Zero
                       ELSE power_divergence(
                                [k \in 1..Size(T) |-> adj(RowOf(T, k), ColOf(T, k))],
                                [k \in 1..Size(T) |-> E[RowOf(T, k)][ColOf(T, k)]]),
              dof |-> dof,
              expected |-> E]

chi2_contingency(T) == CHOOSE r \in {chi2_given_expected(T, E) : E \in {expected_freq(T)}} : TRUE

\* The p-value is the chi-square survival function of the statistic, which
\* is not computed here: 1.0 literally when dof = 0, NaN for a NaN
\* statistic, sf(0) = 1, and otherwise any of a few sample values.
PSamples == {Rat(1, 100), Rat(1, 20), Rat(1, 10), Half}

p_values(stat, dof) ==
    IF dof = 0 THEN {One}
    ELSE IF IsNaN(stat) THEN {NaN}
    ELSE IF stat = Zero THEN {One}
    ELSE PSamples

\* ------------------------------------------------ categorical_association
Alphas == {Rat(1, 20), Rat(1, 10)}

\* the decision with p <= alpha
decide_le(p, a) == IF Le(p, a) THEN "Reject H0" ELSE "Fail to reject H0"

\* if p < alpha: "Reject H0" else: "Fail to reject H0"
decide(p, a) == IF Lt(p, a) THEN "Reject H0" ELSE "Fail to reject H0"

\* k taken as the number of rows
cramer_k_rows(shape) == shape[1]

\* k = min(contingency_table.shape)
cramer_k(shape) == MinI(shape[1], shape[2])

\* chi2/n*k, the parentheses left out
cramer_radicand_unparenthesised(chi2, n, k) == Mul(Div(chi2, IntV(n)), IntV(k))

\* chi2/(n*k), the argument of np.sqrt
cramer_radicand(chi2, n, k) == Div(chi2, IntV(n * k))

\* np.sqrt, kept as its radicand; the square root of a negative number is NaN
NpSqrt(a) == IF IsNaN(a) \/ a.num < 0 THEN NaN ELSE a

\* cal_cramer_v after its first line, r the result of chi2_contingency
cramer_v_given(T, r) ==
    LET n == GrandTotal(T)
        k == cramer_k(Shape(T))
    IN  IF r.raises # "none"
        THEN [raises |-> r.raises, v |-> Unset]
        ELSE [raises |-> "none", v |-> NpSqrt(cramer_radicand(r.chi2, n, k))]

cal_cramer_v(T) == CHOOSE x \in {cramer_v_given(T, r) : r \in {chi2_contingency(T)}} : TRUE

\* cal_k_val with num in place of the unbound name r
cal_k_val_bergsma(num, n) ==
    LET inv == Div(One, IntV(n - 1))
    IN  [raises |-> "none", inv |-> inv,
         val |-> Sub(IntV(num), Mul(inv, IntV((num - 1) * (num - 1))))]

\* val = num-1/(n-1)*(r-1)**2: 1/(n-1) is evaluated, then the name r is
\* looked up; no r is bound in the function, the enclosing function or the
\* module.
cal_k_val(num, n) ==
    LET inv == Div(One, IntV(n - 1))
    IN  [raises |-> "NameError", inv |-> inv, val |-> Unset]

\* Python's built-in min(a, b): b only when b < a
PyMin(a, b) == IF Lt(b, a) THEN b ELSE a

\* cal_cramer_v_adjusted after its first line, r the result of chi2_contingency
cramer_v_adjusted_given(T, r) ==
    LET n     == GrandTotal(T)
        n_row == NRows(T)
        n_col == NCols(T)
        bias  == Div(IntV((n_col - 1) * (n_row - 1)), IntV(n - 1))
        numerator == PyMax(Zero, Sub(Div(r.chi2, IntV(n)), bias))
        k_col == cal_k_val(n_col, n)
        k_row == cal_k_val(n_row, n)
        denominator == PyMin(k_col.val, k_row.val)
        none  == [raises |-> "none", bias |-> Unset, numerator |-> Unset,
                  inv |-> Unset, v |-> Unset]
    IN  IF r.raises # "none" THEN [none EXCEPT !.raises = r.raises]
        ELSE IF k_col.raises # "none"
        THEN [none EXCEPT !.raises = k_col.raises, !.bias = bias,
                          !.numerator = numerator, !.inv = k_col.inv]
        ELSE IF k_row.raises # "none"
        THEN [none EXCEPT !.raises = k_row.raises, !.bias = bias,
                          !.numerator = numerator, !.inv = k_row.inv]
        ELSE [none EXCEPT !.bias = bias, !.numerator = numerator, !.inv = k_row.inv,
                          !.v = NpSqrt(Div(numerator, denominator))]

cal_cramer_v_adjusted(T) ==
    CHOOSE x \in {cramer_v_adjusted_given(T, r) : r \in {chi2_contingency(T)}} : TRUE

\* ------------------------------------------------------------------ plotter
GroupNames == {"a", "b", "c", "d"}

YValues == 0..1

\* the rows of the DataFrame: the group column and the y column; a row's
\* position stands for its x value
DataRows == [group : GroupNames, y : YValues]

RECURSIVE SeqsUpTo(_, _)
SeqsUpTo(S, n) ==
    IF n = 0 THEN {<<>>}
    ELSE LET shorter == SeqsUpTo(S, n - 1)
         IN  shorter \cup {Append(q, e) : q \in {t \in shorter : Len(t) = n - 1}, e \in S}

\* a colour list with a fourth entry
color_list_4 == <<"#831010", "#564d4d", "#db0000", "#db0000">>

\* color_list = ['#831010', '#564d4d', '#db0000']
color_list == <<"#831010", "#564d4d", "#db0000">>

\* Series.unique(): the distinct values in order of first appearance
RECURSIVE UniqueFrom(_, _)
UniqueFrom(s, acc) ==
    IF s = <<>> THEN acc
    ELSE IF \E k \in 1..Len(acc) : acc[k] = Head(s)
         THEN UniqueFrom(Tail(s), acc)
         ELSE UniqueFrom(Tail(s), Append(acc, Head(s)))

unique(s) == UniqueFrom(s, <<>>)

\* sort_values(by=y_column, ascending=False): row positions by decreasing y,
\* equal y in their original order
RECURSIVE InsertDesc(_, _, _)
InsertDesc(d, sorted, k) ==
    IF sorted = <<>> THEN <<k>>
    ELSE IF d[Head(sorted)].y >= d[k].y
         THEN <<Head(sorted)>> \o InsertDesc(d, Tail(sorted), k)
         ELSE <<k>> \o sorted

RECURSIVE SortPrefix(_, _)
SortPrefix(d, n) == IF n = 0 THEN <<>> ELSE InsertDesc(d, SortPrefix(d, n - 1), n)

sort_values(d) == SortPrefix(d, Len(d))

RECURSIVE Filter(_, _, _)
Filter(d, idx, g) ==
    IF idx = <<>> THEN <<>>
    ELSE IF d[Head(idx)].group = g
         THEN <<Head(idx)>> \o Filter(d, Tail(idx), g)
         ELSE Filter(d, Tail(idx), g)

NoFig == [traces |-> <<>>, barmode |-> "none"]

\* for i, group in enumerate(data[group_column].unique()): one go.Bar each
plot_bar_chart_multivariate_y_col(d) ==
    LET sorted_data == sort_values(d)
        groups == unique([k \in 1..Len(d) |-> d[k].group])
        bar(i) == LET rows == Filter(d, sorted_data, groups[i])
                  IN  [x |-> rows,
                       y |-> [k \in 1..Len(rows) |-> d[rows[k]].y],
                       name |-> groups[i],
                       marker_color |-> color_list[i]]
    IN  IF \E i \in 1..Len(groups) : i > Len(color_list)
        THEN [raises |-> "IndexError", fig |-> NoFig]
        ELSE [raises |-> "none",
              fig |-> [traces |-> [i \in 1..Len(groups) |-> bar(i)],
                       barmode |-> "group"]]

\* ------------------------------------------------------------------- state
VARIABLES contingency_table, alpha, data, call, outcome, test, decision, v, adj, fig

vars == <<contingency_table, alpha, data, call, outcome, test, decision, v, adj, fig>>

NoTest == [chi2 |-> Unset, p |-> Unset, dof |-> -1, expected |-> <<>>]

NoAdj == [bias |-> Unset, numerator |-> Unset, inv |-> Unset, v |-> Unset]

Idle ==
    /\ call = "none"
    /\ outcome = "none"
    /\ alpha = Unset
    /\ test = NoTest
    /\ decision = "none"
    /\ v = Unset
    /\ adj = NoAdj
    /\ fig = NoFig

Init ==
    /\ contingency_table \in Tables
    /\ data = <<>>
    /\ Idle

InitPlot ==
    /\ contingency_table = <<<<0>>>>
    /\ data \in SeqsUpTo(DataRows, MaxData)
    /\ Idle

\* chi_square_test(contingency_table, alpha): the report it prints is kept
\* as the decision line alone
chi_square_test ==
    /\ call = "none"
    /\ \E a \in Alphas :
        \E r \in {chi2_contingency(contingency_table)} :
            /\ call' = "chi_square_test"
            /\ alpha' = a
            /\ IF r.raises # "none"
               THEN /\ outcome' = r.raises
                    /\ UNCHANGED <<test, decision>>
               ELSE \E pv \in p_values(r.chi2, r.dof) :
                    /\ outcome' = "returned"
                    /\ decision' = decide(pv, a)
                    /\ test' = [chi2 |-> r.chi2, p |-> pv, dof |-> r.dof,
                                expected |-> r.expected]
    /\ UNCHANGED <<contingency_table, data, v, adj, fig>>

CalCramerV ==
    /\ call = "none"
    /\ \E r \in {cal_cramer_v(contingency_table)} :
           /\ call' = "cal_cramer_v"
           /\ outcome' = IF r.raises # "none" THEN r.raises ELSE "returned"
           /\ v' = r.v
    /\ UNCHANGED <<contingency_table, alpha, data, test, decision, adj, fig>>

CalCramerVAdjusted ==
    /\ call = "none"
    /\ \E r \in {cal_cramer_v_adjusted(contingency_table)} :
           /\ call' = "cal_cramer_v_adjusted"
           /\ outcome' = IF r.raises # "none" THEN r.raises ELSE "returned"
           /\ adj' = [bias |-> r.bias, numerator |-> r.numerator, inv |-> r.inv,
                      v |-> r.v]
    /\ UNCHANGED <<contingency_table, alpha, data, test, decision, v, fig>>

PlotBarChartMultivariate ==
    /\ call = "none"
    /\ \E r \in {plot_bar_chart_multivariate_y_col(data)} :
           /\ call' = "plot_bar_chart_multivariate_y_col"
           /\ outcome' = IF r.raises # "none" THEN r.raises ELSE "returned"
           /\ fig' = r.fig
    /\ UNCHANGED <<contingency_table, alpha, data, test, decision, v, adj>>

Next == chi_square_test \/ CalCramerV \/ CalCramerVAdjusted

NextPlot == PlotBarChartMultivariate

Spec == Init /\ [][Next]_vars

SpecPlot == InitPlot /\ [][NextPlot]_vars

\* ------------------------------------------------------------- properties
T == contingency_table

HasZeroMargin ==
    \/ \E i \in 1..NRows(T) : RowTotal(T, i) = 0
    \/ \E j \in 1..NCols(T) : ColTotal(T, j) = 0

\* R >= 2, C >= 2 and every row and column total positive
ValidTable == NRows(T) >= 2 /\ NCols(T) >= 2 /\ ~HasZeroMargin

TestReturned == call = "chi_square_test" /\ outcome = "returned"

Cells == {<<i, j>> : i \in 1..NRows(T), j \in 1..NCols(T)}

CellAt(k) == <<RowOf(T, k), ColOf(T, k)>>

\* n * observed - row_total * col_total, i.e. n * (observed - expected)
Deviation(c) == GrandTotal(T) * T[c[1]][c[2]] - RowTotal(T, c[1]) * ColTotal(T, c[2])

\* (observed - expected)^2 / expected in closed form
PearsonTerm(c) ==
    Rat(Deviation(c) * Deviation(c),
        GrandTotal(T) * RowTotal(T, c[1]) * ColTotal(T, c[2]))

\* (max(|observed - expected| - 1/2, 0))^2 / expected in closed form
YatesTerm(c) ==
    LET m == 2 * AbsI(Deviation(c)) - GrandTotal(T)
        e == IF m > 0 THEN m ELSE 0
    IN  Rat(e * e, 4 * GrandTotal(T) * RowTotal(T, c[1]) * ColTotal(T, c[2]))

PearsonStatistic == SumV([k \in 1..Size(T) |-> PearsonTerm(CellAt(k))])

YatesStatistic == SumV([k \in 1..Size(T) |-> YatesTerm(CellAt(k))])

\* C1: whenever chi_square_test completes, the decision it reports is
\* "Reject H0" if and only if the p-value is strictly less than alpha; a
\* p-value equal to alpha yields "Fail to reject H0".
C1_DecisionIffPLessAlpha ==
    TestReturned =>
        /\ decision \in {"Reject H0", "Fail to reject H0"}
        /\ decision = "Reject H0" <=>
              (/\ test.p # NaN
               /\ test.p.num * alpha.den < alpha.num * test.p.den)
        /\ test.p = alpha => decision = "Fail to reject H0"

C1_Witness == TestReturned /\ test.p = alpha /\ decision = "Fail to reject H0"

\* C2 (as stated): for every valid R x C table, 2 x 2 included, the
\* statistic chi_square_test returns is the Pearson statistic, the sum over
\* the cells of (observed - expected)^2 / expected, with no correction.
C2_PearsonUncorrected ==
    (TestReturned /\ ValidTable) => test.chi2 = PearsonStatistic

\* C2 (amended): for every valid R x C table the statistic is the Pearson
\* statistic, except when the table has one degree of freedom (2 x 2),
\* where each |observed - expected| is first reduced by min(0.5, itself).
C2_PearsonUnlessOneDof ==
    (TestReturned /\ ValidTable) =>
        test.chi2 = IF (NRows(T) - 1) * (NCols(T) - 1) = 1
                    THEN YatesStatistic ELSE PearsonStatistic

C2_Witness ==
    /\ TestReturned /\ ValidTable
    /\ NRows(T) = 2 /\ NCols(T) = 2
    /\ test.chi2 # PearsonStatistic
    /\ \E c \in Cells : Deviation(c) # 0 /\ 2 * AbsI(Deviation(c)) < GrandTotal(T)

\* C3: for every valid table the expected-frequency table returned by
\* chi_square_test has the shape of the observed table and its cells sum to
\* the grand total of the observed counts.
C3_ExpectedSumsToTotal ==
    (TestReturned /\ ValidTable) =>
        /\ Len(test.expected) = NRows(T)
        /\ \A i \in 1..NRows(T) : Len(test.expected[i]) = NCols(T)
        /\ SumV([k \in 1..Size(T) |-> test.expected[CellAt(k)[1]][CellAt(k)[2]]])
              = IntV(GrandTotal(T))

C3_Witness ==
    /\ TestReturned /\ ValidTable
    /\ \E c \in Cells : test.expected[c[1]][c[2]].den > 1

\* C4: for every table with R >= 2 rows and C >= 2 columns on which
\* chi_square_test completes, the degrees of freedom are (R-1)*(C-1).
C4_DegreesOfFreedom ==
    (TestReturned /\ NRows(T) >= 2 /\ NCols(T) >= 2) =>
        test.dof = (NRows(T) - 1) * (NCols(T) - 1)

C4_Witness == TestReturned /\ NRows(T) = 2 /\ NCols(T) = 3 /\ test.dof = 2

C6_AdjustedNeverReturns ==
    call = "cal_cramer_v_adjusted" =>
        /\ outcome \in {"ValueError", "NameError"}
        /\ adj.v = Unset
        /\ ~HasZeroMargin => outcome = "NameError"

C6_Witness ==
    /\ call = "cal_cramer_v_adjusted" /\ outcome = "NameError"
    /\ ValidTable /\ adj.numerator.num > 0

\* C7: for every table whose grand total n is <= 1 the adjusted Cramer's V
\* computation fails with an invalid-input error before any division by
\* n - 1 is evaluated.
C7_RejectsSmallTotalBeforeDividing ==
    (call = "cal_cramer_v_adjusted" /\ GrandTotal(T) <= 1) =>
        outcome = "ValueError" /\ adj.bias = Unset /\ adj.inv = Unset

\* C8: for every valid R x C table the value cal_cramer_v returns,
\* sqrt(chi2 / (n * k)) with k = min(R, C), lies in [0, 1].
C8_CramerVInUnitInterval ==
    (call = "cal_cramer_v" /\ ValidTable) =>
        /\ outcome = "returned"
        /\ v.den > 0 /\ 0 <= v.num /\ v.num <= v.den

C8_Witness == call = "cal_cramer_v" /\ ValidTable /\ outcome = "returned" /\ v.num > 0

\* C9: cal_cramer_v and cal_cramer_v_adjusted have the same outcome on a
\* table and on its transpose: the same value, or both fail.
C9_TransposeInvariant ==
    /\ call = "cal_cramer_v" =>
          LET t == cal_cramer_v(Transpose(T))
          IN  /\ (outcome = "returned") = (t.raises = "none")
              /\ outcome # "returned" => outcome = t.raises
              /\ v = t.v
    /\ call = "cal_cramer_v_adjusted" =>
          LET t == cal_cramer_v_adjusted(Transpose(T))
          IN  /\ (outcome = "returned") = (t.raises = "none")
              /\ outcome # "returned" => outcome = t.raises
              /\ adj.v = t.v

C9_Witness ==
    /\ call = "cal_cramer_v" /\ outcome = "returned"
    /\ NRows(T) # NCols(T) /\ NRows(T) >= 2 /\ v.num > 0

GroupsOf(d) == {d[k].group : k \in 1..Len(d)}

FirstAt(d, g) == CHOOSE k \in 1..Len(d) : d[k].group = g /\ \A m \in 1..(k - 1) : d[m].group # g

\* C10: plot_bar_chart_multivariate_y_col adds one bar trace per distinct
\* group value, in order of first appearance, the i-th trace coloured with
\* the i-th of the three colours; it returns a figure only when there are at
\* most 3 distinct groups, and otherwise fails with an IndexError and no
\* figure.
C10_OneTracePerGroup ==
    call = "plot_bar_chart_multivariate_y_col" =>
        LET n == Cardinality(GroupsOf(data))
            colours == <<"#831010", "#564d4d", "#db0000">>
        IN  /\ (outcome = "returned") = (n <= 3)
            /\ outcome # "returned" => outcome = "IndexError" /\ fig = NoFig
            /\ outcome = "returned" =>
                  /\ Len(fig.traces) = n
                  /\ {fig.traces[i].name : i \in 1..n} = GroupsOf(data)
                  /\ \A i \in 1..n : fig.traces[i].marker_color = colours[i]
                  /\ \A i, j \in 1..n :
                        i < j => FirstAt(data, fig.traces[i].name)
                                    < FirstAt(data, fig.traces[j].name)

C10_Witness ==
    /\ call = "plot_bar_chart_multivariate_y_col" /\ outcome = "returned"
    /\ Len(fig.traces) = 3
    /\ data[1].group = "c"

=============================================================================
